---------------------------- MODULE Spec2Model ----------------------------
(* A model of the migration MCP tool server: the Config Extractor, the      *)
(* Config Persister, the Config Resolver, the Reference Scanner and the     *)
(* Dependency Gate.                                                         *)
(*                                                                          *)
(* Text is a sequence of tokens. "NL" is a line break, "SP" a run of white  *)
(* space, and the other tokens are the pieces of text the code tests for    *)
(* (the markers) or ordinary text ("x").                                    *)
EXTENDS Integers, Sequences, FiniteSets, TLC

VARIABLES
    pathExists,      \* the project path exists
    nodeModules,     \* <project>/node_modules exists
    cache,           \* <project>/.rimac_migration/serverless.resolved.<key>.yaml, by key
    gitignore,       \* <project>/.gitignore
    cli,             \* what "npx serverless print" does when it is run
    last,            \* the last tool call: its arguments, what it did, its result
    prev,            \* the get_serverless_config call right before the last one
    stdout_content,  \* Config Extractor: the captured standard output
    extracted,       \* Config Extractor: [done, value] of the call
    document,        \* Reference Scanner: the document
    markers,         \* Reference Scanner: the markers, [given, list]
    findings,        \* Reference Scanner: [done, list] of the call
    calls,           \* concurrent Config Persister calls: [pc, stage, text, content]
    gitignoreAtStart \* .gitignore as it was before the concurrent calls

fsVars == <<pathExists, nodeModules, cache, gitignore>>
sysVars == <<pathExists, nodeModules, cache, gitignore, cli, last, prev>>
exVars == <<stdout_content, extracted>>
scanVars == <<document, markers, findings>>
raceVars == <<calls, gitignoreAtStart>>
vars == <<pathExists, nodeModules, cache, gitignore, cli, last, prev,
          stdout_content, extracted, document, markers, findings,
          calls, gitignoreAtStart>>

-----------------------------------------------------------------------------
(* Sequences and text                                                       *)

\* All sequences over S of length at most n.
SeqsUpTo(S, n) == UNION {[1..k -> S] : k \in 0..n}

\* x in line (substring of a line, at the token level)
Contains(line, tok) == \E i \in 1..Len(line) : line[i] = tok

\* line.startswith(tok)
StartsWith(line, tok) == Len(line) > 0 /\ line[1] = tok

\* line.strip(): the line without its leading and trailing white space
RECURSIVE LStrip(_)
LStrip(line) ==
    IF line # <<>> /\ Head(line) = "SP" THEN LStrip(Tail(line)) ELSE line

RECURSIVE RStrip(_)
RStrip(line) ==
    IF line # <<>> /\ line[Len(line)] = "SP"
    THEN RStrip(SubSeq(line, 1, Len(line) - 1))
    ELSE line

Strip(line) == RStrip(LStrip(line))

\* text.splitlines(): the lines of a text, without the line breaks; a final
\* line break opens no further (empty) line.
RECURSIVE SplitLoop(_, _, _)
SplitLoop(text, cur, acc) ==
    IF text = <<>>
    THEN IF cur = <<>> THEN acc ELSE Append(acc, cur)
    ELSE IF Head(text) = "NL"
         THEN SplitLoop(Tail(text), <<>>, Append(acc, cur))
         ELSE SplitLoop(Tail(text), Append(cur, Head(text)), acc)

SplitLines(text) == SplitLoop(text, <<>>, <<>>)

\* "\n".join(lines)
RECURSIVE JoinLines(_)
JoinLines(lines) ==
    IF lines = <<>> THEN <<>>
    ELSE IF Len(lines) = 1 THEN lines[1]
    ELSE lines[1] \o <<"NL">> \o JoinLines(Tail(lines))

-----------------------------------------------------------------------------
(* Config Extractor                                                         *)

IsStartLine(line) ==
    StartsWith(Strip(line), "service:") \/ StartsWith(Strip(line), "frameworkVersion:")

IsStopLine(line) ==
    StartsWith(Strip(line), "Serverless:") \/ Contains(line, "Deprecation warning:")

\* The stop test once the document has started: a bug that forgets the
\* deprecation notice.
StopsMutant(line) == StartsWith(Strip(line), "Serverless:")

Stops(line) == IsStopLine(line)

\* The for loop of extract_yaml_from_output over lines[i..].
RECURSIVE ExtractLoop(_, _, _, _)
ExtractLoop(lines, i, yaml_started, clean_yaml_lines) ==
    IF i > Len(lines) THEN clean_yaml_lines
    ELSE IF ~yaml_started
         THEN IF IsStartLine(lines[i])
              THEN ExtractLoop(lines, i + 1, TRUE, Append(clean_yaml_lines, lines[i]))
              ELSE ExtractLoop(lines, i + 1, FALSE, clean_yaml_lines)
         ELSE IF Stops(lines[i])
              THEN clean_yaml_lines
              ELSE ExtractLoop(lines, i + 1, TRUE, Append(clean_yaml_lines, lines[i]))

extract_yaml_from_output(text) ==
    LET clean_yaml_lines == ExtractLoop(SplitLines(text), 1, FALSE, <<>>)
    IN IF clean_yaml_lines # <<>> THEN JoinLines(clean_yaml_lines) ELSE text

-----------------------------------------------------------------------------
(* Documents and the YAML loader                                            *)
(*                                                                          *)
(* A document is a tree of nodes: [kind |-> "dict", entries |-> a sequence  *)
(* of [k, v]], [kind |-> "list", items], [kind |-> "str", s], [kind |->     *)
(* "int", n], [kind |-> "bool", b] and None. A string is a sequence of      *)
(* characters.                                                              *)

None == [kind |-> "NoneType"]
Str(s) == [kind |-> "str", s |-> s]
Num(n) == [kind |-> "int", n |-> n]
Bool(b) == [kind |-> "bool", b |-> b]
Dict(entries) == [kind |-> "dict", entries |-> entries]
List(items) == [kind |-> "list", items |-> items]

\* The tokens that read as the key of a "key: value" line, and the key.
KeyOf(tok) ==
    CASE tok = "service:" -> <<"s", "e", "r", "v", "i", "c", "e">>
      [] tok = "frameworkVersion:" -> <<"f", "v">>
      [] tok = "Serverless:" -> <<"S", "l", "s">>
      [] tok = "ax_host:" -> <<"a", "x", "_", "h">>
      [] OTHER -> <<>>

IsEntryLine(line) == line # <<>> /\ KeyOf(line[1]) # <<>>

\* d[k] = v on the entries of a dict: a repeated key keeps its place and
\* takes the later value.
RECURSIVE DictSet(_, _, _)
DictSet(entries, k, v) ==
    IF entries = <<>> THEN <<[k |-> k, v |-> v]>>
    ELSE IF Head(entries).k = k THEN <<[k |-> k, v |-> v]>> \o Tail(entries)
    ELSE <<Head(entries)>> \o DictSet(Tail(entries), k, v)

\* The scalar a piece of text reads as: nothing is null, other text a string.
ScalarOf(text) == IF text = <<>> THEN None ELSE Str(text)

RECURSIVE EntriesOf(_, _)
EntriesOf(lines, acc) ==
    IF lines = <<>> THEN acc
    ELSE EntriesOf(Tail(lines),
                   DictSet(acc, KeyOf(Head(lines)[1]), ScalarOf(Strip(Tail(Head(lines))))))

RECURSIVE NonBlank(_)
NonBlank(lines) ==
    IF lines = <<>> THEN <<>>
    ELSE IF Strip(Head(lines)) = <<>> THEN NonBlank(Tail(lines))
    ELSE <<Strip(Head(lines))>> \o NonBlank(Tail(lines))

\* yaml.safe_load(text): [ok, doc]. A text with no content is null; lines
\* that are all "key: value" are a map; one line of plain text is a string;
\* anything else, and any text with an unclosed "{", does not parse.
YamlLoad(text) ==
    LET lines == NonBlank(SplitLines(text))
    IN IF Contains(text, "{") THEN [ok |-> FALSE, doc |-> None]
       ELSE IF lines = <<>> THEN [ok |-> TRUE, doc |-> None]
       ELSE IF \A i \in 1..Len(lines) : IsEntryLine(lines[i])
            THEN [ok |-> TRUE, doc |-> Dict(EntriesOf(lines, <<>>))]
       ELSE IF Len(lines) = 1 /\ \A i \in 1..Len(lines[1]) : KeyOf(lines[1][i]) = <<>>
            THEN [ok |-> TRUE, doc |-> Str(lines[1])]
       ELSE [ok |-> FALSE, doc |-> None]

-----------------------------------------------------------------------------
(* Reference Scanner                                                        *)

\* c.lower() on a character
LowerChar(c) ==
    CASE c = "A" -> "a"
      [] c = "B" -> "b"
      [] c = "E" -> "e"
      [] c = "R" -> "r"
      [] c = "S" -> "s"
      [] c = "X" -> "x"
      [] OTHER -> c

\* s.lower()
LowerStr(s) == [i \in 1..Len(s) |-> LowerChar(s[i])]

\* p in s
IsSubstring(p, s) ==
    \E i \in 0..(Len(s) - Len(p)) : SubSeq(s, i + 1, i + Len(p)) = p

\* prefix.lower() in s.lower()
Matches(prefix, s) == IsSubstring(LowerStr(prefix), LowerStr(s))

DefaultPrefixes ==
    << <<"A", "X">>, <<"A", "E">>, <<"S", "A", "S">>, <<"R", "S", "A">> >>

\* str(i), for an index
RECURSIVE Digits(_)
Digits(i) ==
    LET d == <<"0", "1", "2", "3", "4", "5", "6", "7", "8", "9">>
    IN IF i < 10 THEN <<d[i + 1]>> ELSE Digits(i \div 10) \o <<d[(i % 10) + 1]>>

\* f"{current_path}.{k}" if current_path else k
KeyPath(current_path, k) ==
    IF current_path # <<>> THEN current_path \o <<".">> \o k ELSE k

\* f"{current_path}[{i}]"
ItemPath(current_path, i) == current_path \o <<"[">> \o Digits(i) \o <<"]">>

\* f"<{type(v).__name__}>"
TypeTag(v) == Str(<<"<", v.kind, ">">>)

\* isinstance(v, (str, int, float, bool))
IsScalarValue(v) == v.kind \in {"str", "int", "float", "bool"}

\* v if isinstance(v, (str, int, float, bool)) else the type tag
RecordedValue(v) == IF IsScalarValue(v) THEN v ELSE TypeTag(v)

\* The key-match findings of one entry: one for each prefix that matches.
RECURSIVE KeyFindings(_, _, _, _)
KeyFindings(k, v, current_path, prefixes) ==
    IF prefixes = <<>> THEN <<>>
    ELSE (IF Matches(Head(prefixes), k)
          THEN <<[type |-> "key_match", prefix |-> Head(prefixes),
                  path |-> KeyPath(current_path, k), key |-> k,
                  value |-> RecordedValue(v)]>>
          ELSE <<>>)
         \o KeyFindings(k, v, current_path, Tail(prefixes))

\* The value-match findings of a string.
RECURSIVE ValueFindings(_, _, _)
ValueFindings(s, current_path, prefixes) ==
    IF prefixes = <<>> THEN <<>>
    ELSE (IF Matches(Head(prefixes), s)
          THEN <<[type |-> "value_match", prefix |-> Head(prefixes),
                  path |-> current_path, value |-> Str(s)]>>
          ELSE <<>>)
         \o ValueFindings(s, current_path, Tail(prefixes))

\* _recurse(obj, current_path): the findings it appends, in order.
RECURSIVE Recurse(_, _, _)
RECURSIVE RecurseEntries(_, _, _)
RECURSIVE RecurseItems(_, _, _, _)

RecurseEntries(entries, current_path, prefixes) ==
    IF entries = <<>> THEN <<>>
    ELSE KeyFindings(Head(entries).k, Head(entries).v, current_path, prefixes)
         \o Recurse(Head(entries).v, KeyPath(current_path, Head(entries).k), prefixes)
         \o RecurseEntries(Tail(entries), current_path, prefixes)

RecurseItems(items, i, current_path, prefixes) ==
    IF i > Len(items) THEN <<>>
    ELSE Recurse(items[i], ItemPath(current_path, i - 1), prefixes)
         \o RecurseItems(items, i + 1, current_path, prefixes)

Recurse(obj, current_path, prefixes) ==
    CASE obj.kind = "dict" -> RecurseEntries(obj.entries, current_path, prefixes)
      [] obj.kind = "list" -> RecurseItems(obj.items, 1, current_path, prefixes)
      [] obj.kind = "str" -> ValueFindings(obj.s, current_path, prefixes)
      [] OTHER -> <<>>

\* search_database_references(config, prefixes); prefixes not given is
\* [given |-> FALSE].
search_database_references(cfg, pfx) ==
    Recurse(cfg, <<>>, IF pfx.given THEN pfx.list ELSE DefaultPrefixes)

-----------------------------------------------------------------------------
(* The project directory                                                    *)

NoFile == [exists |-> FALSE, content |-> <<>>]
File(text) == [exists |-> TRUE, content |-> text]

Project == "project"

\* Stage arguments: "" stands for a stage that was not given.
Stages == {"", "TEST", "test", "PROD"}

\* os.environ.get("MCP_STAGE", "TEST")
get_default_stage == "TEST"

\* stage if stage else get_default_stage()
TargetStage(stage) == IF stage # "" THEN stage ELSE get_default_stage

\* stage.lower()
LowerStage(stage) ==
    CASE stage = "TEST" -> "test"
      [] stage = "PROD" -> "prod"
      [] OTHER -> stage

CacheKeys == {"test", "prod"}

\* f"serverless.resolved.{stage.lower()}.yaml" under .rimac_migration
ResolvedFilePath(stage) ==
    <<Project, ".rimac_migration", "serverless.resolved", LowerStage(stage), "yaml">>

-----------------------------------------------------------------------------
(* Config Persister                                                         *)

gitignore_entry == ".rimac_migration/"

\* gitignore_entry in gitignore_content
EntryIn(content) == Contains(content, gitignore_entry)

AppendedText == <<"NL", "# Rimac Migration MCP", "NL", gitignore_entry, "NL">>
CreatedText == <<"# Rimac Migration MCP", "NL", gitignore_entry, "NL">>

\* A bug that opens the file to write, not to append.
AppendToMutant(content) == AppendedText

\* What the file holds after the text is appended to it.
AppendTo(content) == content \o AppendedText

\* A bug that appends without looking at what the file holds.
NeedsEntryMutant(content) == TRUE

NeedsEntry(content) == ~EntryIn(content)

\* The update of .gitignore: [file, trace].
UpdateGitignore(g) ==
    IF g.exists
    THEN IF NeedsEntry(g.content)
         THEN [file |-> File(AppendTo(g.content)),
               trace |-> <<"exists:gitignore", "read:gitignore", "append:gitignore">>]
         ELSE [file |-> g, trace |-> <<"exists:gitignore", "read:gitignore">>]
    ELSE [file |-> File(CreatedText),
          trace |-> <<"exists:gitignore", "create:gitignore">>]

\* A bug that saves the raw output, not the extracted document.
SavedTextMutant(raw, yaml_content) == raw

\* The text written to the cache file.
SavedText(raw, yaml_content) == yaml_content

\* persist_resolved_config: [path, cache, gitignore, trace].
persist_resolved_config(stage, yaml_content, c, g) ==
    LET upd == UpdateGitignore(g)
    IN [path |-> ResolvedFilePath(stage),
        cache |-> [c EXCEPT ![LowerStage(stage)] = File(yaml_content)],
        gitignore |-> upd.file,
        trace |-> <<"makedirs", "write:cache">> \o upd.trace]

-----------------------------------------------------------------------------
(* Config Resolver                                                          *)

\* clean_stderr[:500]
StderrLimit == 500

Prefix(s, n) == SubSeq(s, 1, IF Len(s) < n THEN Len(s) ELSE n)

Hint == <<"Hint: Ensure you have valid AWS credentials configured">>

PathError == [error |-> <<"Path does not exist: ", Project>>]

MissingDependenciesError ==
    [error |-> "MissingDependencies",
     message |-> "node_modules not found. Please run check_project_dependencies first"]

\* What a call did: its result, the operations it made in order, and the
\* files as it leaves them.
Outcome(result, trace, c, g) ==
    [result |-> result, trace |-> trace, cache |-> c, gitignore |-> g]

\* A bug that leaves the cache file path out of the cached result.
CachedResultMutant(results, doc, path) ==
    [results EXCEPT !.serverless_config = doc, !.method = "existing_resolved_file"]

\* The result of the fast path.
CachedResult(results, doc, path) ==
    [resolved_config_path |-> path] @@
    [results EXCEPT !.serverless_config = doc, !.method = "existing_resolved_file"]

\* execute_serverless_print and what follows it (the try block).
RunServerlessPrint(target_stage, results, trace) ==
    IF cli.kind = "exception"
    THEN Outcome([results EXCEPT !.errors =
                      <<<<"Exception running serverless print: ", "x">>, Hint>>],
                 trace, cache, gitignore)
    ELSE LET yaml_content == extract_yaml_from_output(cli.stdout)
         IN IF cli.returncode = 0
            THEN LET p == persist_resolved_config(
                              target_stage, SavedText(cli.stdout, yaml_content),
                              cache, gitignore)
                     loaded == YamlLoad(yaml_content)
                     saved == [resolved_config_path |-> p.path] @@ results
                 IN IF loaded.ok
                    THEN Outcome([saved EXCEPT !.serverless_config = loaded.doc,
                                               !.method = "serverless_print"],
                                 trace \o p.trace, p.cache, p.gitignore)
                    ELSE Outcome([saved EXCEPT !.errors =
                                      <<<<"Error processing serverless print output: ", "x">>>>],
                                 trace \o p.trace, p.cache, p.gitignore)
            ELSE LET clean_stderr == IF cli.stderr # <<>> THEN Strip(cli.stderr)
                                     ELSE <<"Unknown error">>
                 IN Outcome([results EXCEPT !.errors =
                                 << <<"serverless print failed: ">>
                                        \o Prefix(clean_stderr, StderrLimit) \o <<"...">>,
                                    Hint >>],
                            trace, cache, gitignore)

\* A bug that runs the CLI without the node_modules check.
FreshResolutionMutant(target_stage, results, trace) ==
    RunServerlessPrint(target_stage, results, trace \o <<"subprocess">>)

\* The fresh-resolution path: the node_modules check, then the CLI.
FreshResolution(target_stage, results, trace) ==
    IF ~nodeModules
    THEN Outcome(MissingDependenciesError, trace \o <<"exists:node_modules">>,
                 cache, gitignore)
    ELSE RunServerlessPrint(target_stage, results,
                            trace \o <<"exists:node_modules", "subprocess">>)

\* A bug that looks for the cache file before the project path.
PathCheckMutant(target_stage, results) == <<"exists:cache", "exists:project">>

\* The operations made up to the check of the project path.
PathCheck(target_stage, results) == <<"exists:project">>

\* get_serverless_config(project_path, stage): the outcome of the call in the
\* current state.
get_serverless_config(stage) ==
    LET target_stage == TargetStage(stage)
        results == [project_path |-> Project, stage |-> target_stage,
                    serverless_config |-> None, errors |-> <<>>,
                    method |-> "unknown"]
        checked == PathCheck(target_stage, results)
        file == cache[LowerStage(target_stage)]
    IN IF ~pathExists
       THEN Outcome(PathError, checked, cache, gitignore)
       ELSE IF file.exists
            THEN IF YamlLoad(file.content).ok
                 THEN Outcome(CachedResult(results, YamlLoad(file.content).doc,
                                           ResolvedFilePath(target_stage)),
                              checked \o <<"exists:cache", "read:cache">>,
                              cache, gitignore)
                 ELSE FreshResolution(target_stage, results,
                                      checked \o <<"exists:cache", "read:cache">>)
            ELSE FreshResolution(target_stage, results, checked \o <<"exists:cache">>)

-----------------------------------------------------------------------------
(* Dependency Gate                                                          *)

\* The answers of the elicitation channel: action and, on accept, the data.
Answers ==
    {[action |-> "accept", is_npmrc_correct |-> TRUE],
     [action |-> "accept", is_npmrc_correct |-> FALSE],
     [action |-> "decline", is_npmrc_correct |-> FALSE],
     [action |-> "cancel", is_npmrc_correct |-> FALSE]}

\* A bug that takes any accepted answer as a confirmation.
ConfirmedMutant(answer) == answer.action = "accept"

\* result.action == "accept" and result.data.is_npmrc_correct
Confirmed(answer) == answer.action = "accept" /\ answer.is_npmrc_correct

\* validate_dependencies(project_path, ctx): ctx is TRUE when there is an
\* interactive channel, and answer is what it gives when it is asked.
validate_dependencies(ctx, answer) ==
    IF nodeModules
    THEN [result |-> [success |-> TRUE], trace |-> <<"exists:node_modules">>]
    ELSE IF ctx
         THEN IF Confirmed(answer)
              THEN [result |-> [success |-> FALSE, status |-> "installation_authorized",
                                message |-> "User has CONFIRMED .npmrc configuration",
                                command |-> "npm i --dd"],
                    trace |-> <<"exists:node_modules", "elicit">>]
              ELSE [result |-> [success |-> FALSE, status |-> "aborted_by_user",
                                message |-> "User declined dependency installation"],
                    trace |-> <<"exists:node_modules", "elicit">>]
         ELSE [result |-> [success |-> FALSE, error |-> "MissingDependencies",
                           message |-> "Missing node_modules",
                           suggested_command |-> "npm i --dd",
                           action_required |-> "install_dependencies"],
               trace |-> <<"exists:node_modules">>]

\* check_project_dependencies(project_path, ctx)
check_project_dependencies(ctx, answer) ==
    IF ~pathExists
    THEN [result |-> PathError, trace |-> <<"exists:project">>]
    ELSE LET v == validate_dependencies(ctx, answer)
         IN [result |-> v.result, trace |-> <<"exists:project">> \o v.trace]

-----------------------------------------------------------------------------
(* find_database_credentials                                                *)

ResolvedConfigNotFound(target_stage) ==
    [error |-> "ResolvedConfigNotFound",
     message |-> <<"Could not find resolved config at ", ResolvedFilePath(target_stage),
                   ". Please run get_serverless_config first.">>]

\* The file at a cache file name: os.path.exists and open.
CacheFileAt(c, name) == IF name \in DOMAIN c THEN c[name] ELSE NoFile

\* A bug that builds the file name from the stage as it was given.
AnalyzedFileNameMutant(target_stage) == target_stage

\* f"serverless.resolved.{target_stage.lower()}.yaml"
AnalyzedFileName(target_stage) == LowerStage(target_stage)

\* find_database_credentials(project_path, stage): [result, trace].
find_database_credentials(stage) ==
    LET target_stage == TargetStage(stage)
        file == CacheFileAt(cache, AnalyzedFileName(target_stage))
        loaded == YamlLoad(file.content)
        found == search_database_references(loaded.doc, [given |-> FALSE, list |-> <<>>])
    IN IF ~file.exists
       THEN [result |-> ResolvedConfigNotFound(target_stage), trace |-> <<"exists:cache">>]
       ELSE IF ~loaded.ok
       THEN [result |-> [error |-> <<"Error analyzing config: ", "x">>],
             trace |-> <<"exists:cache", "read:cache">>]
       ELSE [result |-> [project_path |-> Project, stage |-> target_stage,
                         analyzed_file |-> ResolvedFilePath(target_stage),
                         findings_count |-> Len(found), findings |-> found],
             trace |-> <<"exists:cache", "read:cache">>]

-----------------------------------------------------------------------------
(* The tool server and its environment                                      *)

\* What the CLI prints on standard output.
CliOutputs ==
    { <<"x", "NL", "service:", "SP", "x", "NL", "ax_host:", "SP", "x", "NL",
        "Serverless:", "SP", "x", "NL">>,
      <<"service:", "SP", "x", "NL", "{", "NL">>,
      <<"x", "SP", "x", "NL">>,
      <<>> }

\* What running the CLI does: it exits with a return code, or the run raises
\* (a timeout, a missing executable).
CliBehaviours ==
    {[kind |-> "exit", returncode |-> 0, stdout |-> out, stderr |-> <<>>] :
         out \in CliOutputs}
    \cup {[kind |-> "exit", returncode |-> 1, stdout |-> <<>>, stderr |-> err] :
              err \in {<<>>, <<"SP", "x", "SP">>}}
    \cup {[kind |-> "exception", returncode |-> 1, stdout |-> <<>>, stderr |-> <<>>]}

\* The cache files and .gitignore files found in a project.
CacheFiles ==
    {NoFile, File(<<"service:", "SP", "x">>), File(<<"{">>)}

GitignoreFiles ==
    {NoFile, File(<<"x">>),
     File(<<"x", "NL", "x", gitignore_entry, "x", "NL">>),
     File(<<".rimac_migration", "NL">>)}

NoCache == [k \in CacheKeys |-> NoFile]

NoAnswer == [action |-> "cancel", is_npmrc_correct |-> FALSE]

Snapshot ==
    [pathExists |-> pathExists, nodeModules |-> nodeModules, cache |-> cache,
     gitignore |-> gitignore, cli |-> cli]

NoCall ==
    [op |-> "none", stage |-> "", ctx |-> FALSE, answer |-> NoAnswer,
     result |-> [none |-> TRUE], trace |-> <<>>, pre |-> [none |-> TRUE]]

NoPrev == [called |-> FALSE, stage |-> "", result |-> [none |-> TRUE]]

ExIdle == stdout_content = <<>> /\ extracted = [done |-> FALSE, value |-> <<>>]

SysIdle ==
    /\ pathExists = FALSE /\ nodeModules = FALSE
    /\ cache = NoCache /\ gitignore = NoFile
    /\ cli = [kind |-> "exception", returncode |-> 1, stdout |-> <<>>, stderr |-> <<>>]
    /\ last = NoCall /\ prev = NoPrev

RaceIdleState == calls = <<>> /\ gitignoreAtStart = NoFile

ScanIdle ==
    /\ document = None
    /\ markers = [given |-> FALSE, list |-> <<>>]
    /\ findings = [done |-> FALSE, list |-> <<>>]

Init ==
    /\ pathExists \in BOOLEAN
    /\ nodeModules \in BOOLEAN
    /\ cache \in [CacheKeys -> CacheFiles]
    /\ gitignore \in GitignoreFiles
    /\ ~pathExists => (~nodeModules /\ cache = NoCache /\ gitignore = NoFile)
    /\ cli \in CliBehaviours
    /\ last = NoCall
    /\ prev = NoPrev
    /\ ExIdle
    /\ ScanIdle
    /\ RaceIdleState

\* The tool get_serverless_config is called and returns.
GetServerlessConfig ==
    \E stage \in Stages :
        LET o == get_serverless_config(stage)
        IN /\ cache' = o.cache
           /\ gitignore' = o.gitignore
           /\ last' = [op |-> "get_serverless_config", stage |-> stage, ctx |-> FALSE,
                       answer |-> NoAnswer, result |-> o.result, trace |-> o.trace,
                       pre |-> Snapshot]
           /\ prev' = IF last.op = "get_serverless_config"
                      THEN [called |-> TRUE, stage |-> last.stage, result |-> last.result]
                      ELSE NoPrev
           /\ UNCHANGED <<pathExists, nodeModules, cli, exVars, scanVars, raceVars>>

\* The tool check_project_dependencies is called and returns.
CheckProjectDependencies ==
    \E ctx \in BOOLEAN, answer \in Answers :
        LET o == check_project_dependencies(ctx, answer)
        IN /\ last' = [op |-> "check_project_dependencies", stage |-> "", ctx |-> ctx,
                       answer |-> answer, result |-> o.result, trace |-> o.trace,
                       pre |-> Snapshot]
           /\ prev' = NoPrev
           /\ UNCHANGED <<fsVars, cli, exVars, scanVars, raceVars>>

\* The tool find_database_credentials is called and returns.
FindDatabaseCredentials ==
    \E stage \in Stages :
        LET o == find_database_credentials(stage)
        IN /\ last' = [op |-> "find_database_credentials", stage |-> stage, ctx |-> FALSE,
                       answer |-> NoAnswer, result |-> o.result, trace |-> o.trace,
                       pre |-> Snapshot]
           /\ prev' = NoPrev
           /\ UNCHANGED <<fsVars, cli, exVars, scanVars, raceVars>>

\* The environment: the project directory is created or removed, dependencies
\* are installed or removed, files are edited, the CLI's behaviour changes.
EnvCreateProject ==
    /\ ~pathExists
    /\ pathExists' = TRUE
    /\ last' = NoCall /\ prev' = NoPrev
    /\ UNCHANGED <<nodeModules, cache, gitignore, cli, exVars, scanVars, raceVars>>

EnvRemoveProject ==
    /\ pathExists
    /\ pathExists' = FALSE /\ nodeModules' = FALSE
    /\ cache' = NoCache /\ gitignore' = NoFile
    /\ last' = NoCall /\ prev' = NoPrev
    /\ UNCHANGED <<cli, exVars, scanVars, raceVars>>

EnvNodeModules ==
    /\ pathExists
    /\ nodeModules' = ~nodeModules
    /\ last' = NoCall /\ prev' = NoPrev
    /\ UNCHANGED <<pathExists, cache, gitignore, cli, exVars, scanVars, raceVars>>

EnvEditCache ==
    /\ pathExists
    /\ \E k \in CacheKeys, f \in CacheFiles : cache' = [cache EXCEPT ![k] = f]
    /\ last' = NoCall /\ prev' = NoPrev
    /\ UNCHANGED <<pathExists, nodeModules, gitignore, cli, exVars, scanVars, raceVars>>

EnvEditGitignore ==
    /\ pathExists
    /\ gitignore' \in GitignoreFiles
    /\ last' = NoCall /\ prev' = NoPrev
    /\ UNCHANGED <<pathExists, nodeModules, cache, cli, exVars, scanVars, raceVars>>

EnvCli ==
    /\ cli' \in CliBehaviours
    /\ last' = NoCall /\ prev' = NoPrev
    /\ UNCHANGED <<fsVars, exVars, scanVars, raceVars>>

Next ==
    \/ GetServerlessConfig
    \/ CheckProjectDependencies
    \/ EnvCreateProject
    \/ EnvRemoveProject
    \/ EnvNodeModules
    \/ EnvEditCache
    \/ EnvEditGitignore
    \/ EnvCli

Spec == Init /\ [][Next]_vars

-----------------------------------------------------------------------------
(* The Config Resolver's and the Dependency Gate's properties               *)

Has(r, f) == f \in DOMAIN r

IsGet == last.op = "get_serverless_config"

\* The cache file the last call looks for, as the call found it.
CacheBefore == last.pre.cache[LowerStage(TargetStage(last.stage))]

\* A result of a successful resolution.
Resolved(r) ==
    Has(r, "method") /\ r.method \in {"serverless_print", "existing_resolved_file"}

TookFastPath ==
    /\ Has(last.result, "method")
    /\ last.result.method = "existing_resolved_file"
    /\ ~Contains(last.trace, "subprocess")

SameDocument(r1, r2) ==
    IF Has(r1, "serverless_config") /\ Has(r2, "serverless_config")
    THEN r1.serverless_config = r2.serverless_config
    ELSE ~Has(r1, "serverless_config") /\ ~Has(r2, "serverless_config")

\* Two calls in succession for the same stage, nothing else in between.
Twice ==
    IsGet /\ prev.called /\ TargetStage(prev.stage) = TargetStage(last.stage)

\* C1, as stated: from every starting state, the second of two calls in
\* succession returns the same document as the first and takes the cached
\* fast path, with no subprocess run.
C1_IdempotentAlways ==
    Twice => SameDocument(prev.result, last.result) /\ TookFastPath

\* C1, amended: when the first of two calls in succession returns a
\* successful resolution, the second returns the same document and takes the
\* cached fast path, with no subprocess run.
C1_IdempotentAfterResolution ==
    (Twice /\ Resolved(prev.result)) =>
        SameDocument(prev.result, last.result) /\ TookFastPath

\* A fresh resolution of a map, then the same map from the cache.
C1_Witness ==
    /\ Twice
    /\ Has(prev.result, "method") /\ prev.result.method = "serverless_print"
    /\ TookFastPath
    /\ last.result.serverless_config.kind = "dict"

\* C2: when the project path does not exist the call returns the path error
\* having made the check of the path and nothing else: no cache file read, no
\* node_modules check, no subprocess, no file created or modified.
C2_PathMissingFirst ==
    (IsGet /\ ~last.pre.pathExists) =>
        /\ last.result = PathError
        /\ last.trace = <<"exists:project">>
        /\ cache = last.pre.cache
        /\ gitignore = last.pre.gitignore

\* A call for a stage on a path that does not exist, where the CLI would
\* have succeeded.
C2_Witness ==
    /\ IsGet /\ ~last.pre.pathExists /\ last.stage = "PROD"
    /\ last.pre.cli.returncode = 0
    /\ last.result = PathError

\* The cache file the call looks for exists and does not parse.
BadCache ==
    /\ IsGet /\ last.pre.pathExists
    /\ CacheBefore.exists /\ ~YamlLoad(CacheBefore.content).ok

\* The error strings the fresh-resolution path writes.
FreshErrors ==
    {"Exception running serverless print: ",
     "Error processing serverless print output: ",
     "serverless print failed: ", Hint[1]}

NoCacheParseError ==
    /\ ~Has(last.result, "error") \/ last.result = MissingDependenciesError
    /\ Has(last.result, "errors") =>
           \A i \in 1..Len(last.result.errors) : last.result.errors[i][1] \in FreshErrors
    /\ ~(Has(last.result, "method") /\ last.result.method = "existing_resolved_file")

\* C3, as stated: with a cache file that does not parse the call returns no
\* error of that parse and executes the CLI subprocess.
C3_BadCacheRunsCli ==
    BadCache => NoCacheParseError /\ Contains(last.trace, "subprocess")

\* C3, amended: with a cache file that does not parse the call returns no
\* error of that parse and goes on to the fresh-resolution path: it checks
\* node_modules, and executes the CLI subprocess if node_modules exists, and
\* returns MissingDependencies without a subprocess if it does not.
C3_BadCacheFallsThrough ==
    BadCache =>
        /\ NoCacheParseError
        /\ Contains(last.trace, "exists:node_modules")
        /\ last.pre.nodeModules => Contains(last.trace, "subprocess")
        /\ ~last.pre.nodeModules =>
               /\ last.result = MissingDependenciesError
               /\ ~Contains(last.trace, "subprocess")

\* A cache file that does not parse, replaced by a fresh resolution.
C3_Witness ==
    /\ BadCache /\ last.pre.nodeModules
    /\ Has(last.result, "method") /\ last.result.method = "serverless_print"
    /\ cache[LowerStage(TargetStage(last.stage))] # CacheBefore

EnvelopeFields == {"project_path", "stage", "serverless_config", "errors", "method"}

Envelope(r) ==
    /\ EnvelopeFields \subseteq DOMAIN r
    /\ r.project_path = Project
    /\ r.stage = TargetStage(last.stage)
    /\ r.method \in {"serverless_print", "existing_resolved_file", "unknown"}
    /\ IF Resolved(r)
       THEN /\ r.errors = <<>>
            /\ Has(r, "resolved_config_path")
            /\ r.resolved_config_path = ResolvedFilePath(TargetStage(last.stage))
       ELSE r.errors # <<>> /\ r.serverless_config = None

\* C4, as stated: every result of the call, on every path, holds the
\* project reference, the stage, the document-or-null field, the error list
\* (empty on success) and the method tag, and the cache file path on success.
C4_EnvelopeAlways == IsGet => Envelope(last.result)

\* C4, amended: every result of the call holds those fields, except the two
\* early returns, path-not-found and MissingDependencies, which hold only
\* an error (and a message).
C4_EnvelopeAfterChecks ==
    IsGet =>
        \/ ~last.pre.pathExists /\ last.result = PathError
        \/ /\ last.pre.pathExists /\ ~last.pre.nodeModules
           /\ last.result = MissingDependenciesError
        \/ Envelope(last.result)

\* A result of the fast path, with the cache file path.
C4_Witness ==
    /\ IsGet /\ Envelope(last.result)
    /\ last.result.method = "existing_resolved_file"
    /\ last.result.serverless_config # None

RECURSIVE Count(_, _)
Count(text, tok) ==
    IF text = <<>> THEN 0
    ELSE (IF Head(text) = tok THEN 1 ELSE 0) + Count(Tail(text), tok)

IsPrefix(s, t) == Len(s) <= Len(t) /\ SubSeq(t, 1, Len(s)) = s

Persisted == IsGet /\ Contains(last.trace, "write:cache")

\* C5: a Config Persister call leaves .gitignore unchanged when the pattern
\* is already in it, and otherwise keeps what the file held as a prefix and
\* adds the entry once; so the entry is never written twice and nothing is
\* overwritten.
C5_GitignoreAppendOnly ==
    Persisted =>
        IF last.pre.gitignore.exists /\ EntryIn(last.pre.gitignore.content)
        THEN gitignore = last.pre.gitignore
        ELSE /\ gitignore.exists
             /\ IsPrefix(last.pre.gitignore.content, gitignore.content)
             /\ Count(gitignore.content, gitignore_entry) = 1

\* The entry appended to a file that held other lines.
C5_Witness ==
    /\ Persisted
    /\ last.pre.gitignore = File(<<".rimac_migration", "NL">>)
    /\ gitignore = File(<<".rimac_migration", "NL">> \o AppendedText)

IsCheck == last.op = "check_project_dependencies" /\ last.pre.pathExists

\* C6: the Dependency Gate returns success with no elicitation when
\* node_modules exists; with no channel, MissingDependencies with a suggested
\* command and no elicitation; installation_authorized with the command iff
\* the answer is accept with the flag true; aborted_by_user otherwise. It
\* changes no file.
C6_DependencyGate ==
    IsCheck =>
        /\ <<pathExists, nodeModules, cache, gitignore>> =
               <<last.pre.pathExists, last.pre.nodeModules, last.pre.cache,
                 last.pre.gitignore>>
        /\ IF last.pre.nodeModules
           THEN last.result = [success |-> TRUE] /\ ~Contains(last.trace, "elicit")
           ELSE IF ~last.ctx
           THEN /\ last.result.success = FALSE
                /\ Has(last.result, "error") /\ last.result.error = "MissingDependencies"
                /\ Has(last.result, "suggested_command")
                /\ ~Contains(last.trace, "elicit")
           ELSE /\ Contains(last.trace, "elicit")
                /\ last.result.success = FALSE
                /\ Has(last.result, "status")
                /\ IF last.answer.action = "accept" /\ last.answer.is_npmrc_correct
                   THEN /\ last.result.status = "installation_authorized"
                        /\ Has(last.result, "command")
                        /\ last.result.command = "npm i --dd"
                   ELSE last.result.status = "aborted_by_user"

\* An accepted answer with the flag false: aborted.
C6_Witness ==
    /\ IsCheck /\ ~last.pre.nodeModules /\ last.ctx
    /\ last.answer = [action |-> "accept", is_npmrc_correct |-> FALSE]
    /\ last.result.status = "aborted_by_user"

-----------------------------------------------------------------------------
(* The three tools on a project that nothing else touches                   *)

\* Any project directory and CLI the tools can find; from then on only the
\* tools act, in any order.
ToolsInit ==
    /\ pathExists \in BOOLEAN
    /\ nodeModules \in BOOLEAN
    /\ cache \in [CacheKeys -> CacheFiles]
    /\ gitignore \in GitignoreFiles
    /\ cli \in CliBehaviours
    /\ last = NoCall
    /\ prev = NoPrev
    /\ ExIdle /\ ScanIdle /\ RaceIdleState

ToolsNext ==
    \/ GetServerlessConfig
    \/ CheckProjectDependencies
    \/ FindDatabaseCredentials

SpecTools == ToolsInit /\ [][ToolsNext]_vars

IsFind == last.op = "find_database_credentials"

NotFound == last.result = ResolvedConfigNotFound(TargetStage(last.stage))

\* The last call was a resolution for the cache key k whose result carries
\* the path of the cache file.
ResolvedFor(k) ==
    /\ IsGet
    /\ LowerStage(TargetStage(last.stage)) = k
    /\ Has(last.result, "resolved_config_path")

\* The last call was a scan for the cache key k that found no cache file.
NotFoundFor(k) ==
    IsFind /\ LowerStage(TargetStage(last.stage)) = k /\ NotFound

\* C11: find_database_credentials returns ResolvedConfigNotFound exactly
\* when no cache file exists for (project, lowercased stage); no call of a
\* tool deletes a cache file; and once a get_serverless_config call for a
\* (project, stage) has returned a result carrying resolved_config_path, no
\* later find_database_credentials call for that pair, after any sequence
\* of the tools' calls, returns ResolvedConfigNotFound.
C11_NotFoundOnlyBeforeResolution ==
    /\ [](IsFind => (NotFound <=> ~CacheBefore.exists))
    /\ [](last # NoCall =>
             \A k \in CacheKeys : last.pre.cache[k].exists => cache[k].exists)
    /\ \A k \in CacheKeys : [](ResolvedFor(k) => [](~NotFoundFor(k)))

\* The scan, asked for "TEST", of a cache file that only a resolution can
\* have written: no project starts with a cache file that has findings.
C11_Witness ==
    /\ IsFind /\ last.stage = "TEST"
    /\ ~last.pre.cache["prod"].exists
    /\ Has(last.result, "findings_count") /\ last.result.findings_count > 0

-----------------------------------------------------------------------------
(* The Config Extractor on its own                                          *)

\* The output lines the extractor is run on.
MaxLines == 4

OutputLines ==
    { <<>>,
      <<"x">>,
      <<"service:", "SP", "x">>,
      <<"SP", "frameworkVersion:", "x">>,
      <<"x", "service:">>,
      <<"Serverless:", "SP", "x">>,
      <<"SP", "Serverless:", "SP">>,
      <<"x", "Deprecation warning:", "x">>,
      <<"service:", "Deprecation warning:">> }

\* A text of the given lines, with or without a final line break.
TextOf(lines, final_break) ==
    JoinLines(lines) \o (IF final_break THEN <<"NL">> ELSE <<>>)

NotRun == [done |-> FALSE, value |-> <<>>]

ExtractInit ==
    /\ \E lines \in SeqsUpTo(OutputLines, MaxLines), final_break \in BOOLEAN :
           stdout_content = TextOf(lines, final_break)
    /\ extracted = NotRun
    /\ SysIdle
    /\ ScanIdle
    /\ RaceIdleState

Extract ==
    /\ ~extracted.done
    /\ extracted' = [done |-> TRUE, value |-> extract_yaml_from_output(stdout_content)]
    /\ UNCHANGED <<stdout_content, sysVars, scanVars, raceVars>>

ExtractNext == Extract

SpecExtract == ExtractInit /\ [][ExtractNext]_vars

\* The first index from i on of a start-marker line (Len + 1 if none).
RECURSIVE FirstStart(_, _)
FirstStart(lines, i) ==
    IF i > Len(lines) \/ IsStartLine(lines[i]) THEN i ELSE FirstStart(lines, i + 1)

\* The first index from i on of a stop-marker line (Len + 1 if none).
RECURSIVE FirstStop(_, _)
FirstStop(lines, i) ==
    IF i > Len(lines) \/ IsStopLine(lines[i]) THEN i ELSE FirstStop(lines, i + 1)

ExpectedExtract(text) ==
    LET lines == SplitLines(text)
        first == FirstStart(lines, 1)
        stop  == FirstStop(lines, first + 1)
    IN IF first > Len(lines) THEN text
       ELSE JoinLines(SubSeq(lines, first, stop - 1))

\* C7: the extractor returns the lines from the first start-marker line
\* (inclusive) up to, excluding, the first later stop-marker line, or through
\* the end of the input; with no start-marker line it returns the input
\* unchanged.
C7_ExtractorContract ==
    extracted.done => extracted.value = ExpectedExtract(stdout_content)

\* A banner, a start line, a body line and a trailing banner line.
C7_Witness ==
    /\ extracted.done
    /\ stdout_content = <<"x", "NL", "service:", "SP", "x", "NL", "x", "NL",
                          "Serverless:", "SP", "x">>
    /\ extracted.value = <<"service:", "SP", "x", "NL", "x">>

-----------------------------------------------------------------------------
(* The Reference Scanner on its own                                         *)

\* The bounds of the documents: entries of a map and items of a sequence at
\* the root, and below the root.
MaxEntries == 2
MaxItems == 2
MaxInner == 1

ScanKeys ==
    { <<"R", "S", "A", "S">>, <<"b">>, <<"b", ".", "b">>, <<"b", "[", "0", "]">> }

ScanScalars == { Str(<<"a", "x">>), Str(<<"b">>), Num(1), None }

\* The maps of at most n entries with distinct keys, and the sequences of at
\* most n items, over the values V.
DictsOver(V, n) ==
    { Dict(e) : e \in { s \in SeqsUpTo([k : ScanKeys, v : V], n) :
                            \A i, j \in 1..Len(s) : i # j => s[i].k # s[j].k } }

ListsOver(V, n) == { List(s) : s \in SeqsUpTo(V, n) }

InnerNodes ==
    ScanScalars \cup DictsOver(ScanScalars, MaxInner) \cup ListsOver(ScanScalars, MaxInner)

Documents ==
    InnerNodes \cup DictsOver(InnerNodes, MaxEntries) \cup ListsOver(InnerNodes, MaxItems)

MarkerLists ==
    { [given |-> FALSE, list |-> <<>>],
      [given |-> TRUE, list |-> << <<"A", "X">> >>],
      [given |-> TRUE, list |-> << <<"R", "S", "A">>, <<"B">> >>] }

ScanInit ==
    /\ document \in Documents
    /\ markers \in MarkerLists
    /\ findings = [done |-> FALSE, list |-> <<>>]
    /\ SysIdle
    /\ ExIdle
    /\ RaceIdleState

Scan ==
    /\ ~findings.done
    /\ findings' = [done |-> TRUE, list |-> search_database_references(document, markers)]
    /\ UNCHANGED <<document, markers, sysVars, exVars, raceVars>>

ScanNext == Scan

SpecScan == ScanInit /\ [][ScanNext]_vars

-----------------------------------------------------------------------------
(* The Reference Scanner's properties                                       *)

\* A path expression read back: keys joined by "." and indices in brackets.
IsPathMark(c) == c = "." \/ c = "["

\* The longest prefix of a path that holds no "." and no "[".
RECURSIVE TakeKey(_)
TakeKey(path) ==
    IF path = <<>> \/ IsPathMark(Head(path)) THEN <<>>
    ELSE <<Head(path)>> \o TakeKey(Tail(path))

\* The place of the first "]" of a path (0 if none).
RECURSIVE CloseAt(_, _)
CloseAt(path, i) ==
    IF i > Len(path) THEN 0 ELSE IF path[i] = "]" THEN i ELSE CloseAt(path, i + 1)

DigitChars == <<"0", "1", "2", "3", "4", "5", "6", "7", "8", "9">>

IsDigit(c) == \E d \in 1..10 : DigitChars[d] = c

DigitValue(c) == (CHOOSE d \in 1..10 : DigitChars[d] = c) - 1

RECURSIVE NumberOf(_, _)
NumberOf(digits, acc) ==
    IF digits = <<>> THEN acc
    ELSE NumberOf(Tail(digits), 10 * acc + DigitValue(Head(digits)))

HasKey(node, k) == \E i \in 1..Len(node.entries) : node.entries[i].k = k

ValueAt(node, k) ==
    node.entries[CHOOSE i \in 1..Len(node.entries) : node.entries[i].k = k].v

Unresolved == [ok |-> FALSE, node |-> None, key |-> <<>>, entry |-> FALSE]

\* The node a path leads to from a node: [ok, node], with the key of the map
\* entry it is when the last step of the path is a key.
RECURSIVE ResolveFrom(_, _, _, _)
ResolveFrom(node, path, key, entry) ==
    IF path = <<>> THEN [ok |-> TRUE, node |-> node, key |-> key, entry |-> entry]
    ELSE IF Head(path) = "["
    THEN LET close == CloseAt(path, 1)
             digits == SubSeq(path, 2, close - 1)
         IN IF close < 3 \/ \E i \in 1..Len(digits) : ~IsDigit(digits[i])
            THEN Unresolved
            ELSE IF node.kind # "list" \/ NumberOf(digits, 0) + 1 > Len(node.items)
            THEN Unresolved
            ELSE ResolveFrom(node.items[NumberOf(digits, 0) + 1],
                             SubSeq(path, close + 1, Len(path)), <<>>, FALSE)
    ELSE LET rest == IF Head(path) = "." THEN Tail(path) ELSE path
             k == TakeKey(rest)
         IN IF node.kind # "dict" THEN Unresolved
            ELSE IF ~HasKey(node, k) THEN Unresolved
            ELSE ResolveFrom(ValueAt(node, k), SubSeq(rest, Len(k) + 1, Len(rest)), k, TRUE)

Resolve(doc, path) == ResolveFrom(doc, path, <<>>, FALSE)

FindingResolves(doc, f) ==
    LET r == Resolve(doc, f.path)
    IN /\ r.ok
       /\ f.type = "key_match" => r.entry /\ r.key = f.key
       /\ f.type = "value_match" => r.node = f.value

\* C8: the path expression of every Finding resolves in the document to a
\* node of the recorded kind: for a key match, to an entry of a map whose key
\* is the recorded key; for a value match, to a string equal to the recorded
\* value. Also for keys that hold "." or "[", and for a root that is a
\* sequence or a string.
C8_PathsResolve ==
    findings.done =>
        \A i \in 1..Len(findings.list) : FindingResolves(document, findings.list[i])

\* The keys of a document, at every depth.
RECURSIVE KeysOf(_)
KeysOf(node) ==
    CASE node.kind = "dict" ->
             {node.entries[i].k : i \in 1..Len(node.entries)}
             \cup UNION {KeysOf(node.entries[i].v) : i \in 1..Len(node.entries)}
      [] node.kind = "list" -> UNION {KeysOf(node.items[i]) : i \in 1..Len(node.items)}
      [] OTHER -> {}

PlainKeys(doc) ==
    \A k \in KeysOf(doc) : k # <<>> /\ \A i \in 1..Len(k) : ~IsPathMark(k[i])

\* The same, for the documents whose keys are not empty and hold no "." and
\* no "[": there every path resolves.
PathsResolveForPlainKeys ==
    (findings.done /\ PlainKeys(document)) =>
        \A i \in 1..Len(findings.list) : FindingResolves(document, findings.list[i])

\* The map entries of a document, each with the path of the map it is in.
RECURSIVE EntriesIn(_, _)
EntriesIn(node, path) ==
    CASE node.kind = "dict" ->
             {[at |-> path, i |-> i, k |-> node.entries[i].k, v |-> node.entries[i].v] :
                  i \in 1..Len(node.entries)}
             \cup UNION {EntriesIn(node.entries[i].v, KeyPath(path, node.entries[i].k)) :
                             i \in 1..Len(node.entries)}
      [] node.kind = "list" ->
             UNION {EntriesIn(node.items[i], ItemPath(path, i - 1)) :
                        i \in 1..Len(node.items)}
      [] OTHER -> {}

UsedMarkers == IF markers.given THEN markers.list ELSE DefaultPrefixes

IsPrimitive(v) == v.kind \in {"str", "int", "float", "bool", "NoneType"}

\* The key-match Finding of an entry and a marker, as the claim has it.
KeyMatchOf(e, prefix) ==
    [type |-> "key_match", prefix |-> prefix, path |-> KeyPath(e.at, e.k),
     key |-> e.k, value |-> IF IsPrimitive(e.v) THEN e.v ELSE TypeTag(e.v)]

\* The (entry, marker) pairs that match, and the number of them that ask
\* for a given Finding.
MatchingPairs ==
    {p \in EntriesIn(document, <<>>) \X (1..Len(UsedMarkers)) :
         Matches(UsedMarkers[p[2]], p[1].k)}

Asked(f) == Cardinality({p \in MatchingPairs : KeyMatchOf(p[1], UsedMarkers[p[2]]) = f})

Emitted(f) == Cardinality({i \in 1..Len(findings.list) : findings.list[i] = f})

\* C9: for every map entry and every marker that is a case-insensitive
\* substring of its key there is exactly one key-match Finding, whose value
\* is the entry's own value when that is a string, a number, a boolean or
\* null, and a type tag only when it is a map or a sequence.
C9_KeyMatches ==
    findings.done =>
        /\ \A p \in MatchingPairs :
               LET f == KeyMatchOf(p[1], UsedMarkers[p[2]]) IN Emitted(f) = Asked(f)
        /\ \A i \in 1..Len(findings.list) :
               findings.list[i].type = "key_match" =>
                   Emitted(findings.list[i]) = Asked(findings.list[i])

\* The same with null among the values that get a type tag, as the code has
\* it: every matching (entry, marker) pair has exactly one key-match Finding.
KeyMatchesWithNullTagged ==
    findings.done =>
        Cardinality({i \in 1..Len(findings.list) : findings.list[i].type = "key_match"})
            = Cardinality(MatchingPairs)

-----------------------------------------------------------------------------
(* Config Persister calls that run at the same time                         *)
(*                                                                          *)
(* Each call makes the file operations of persist_resolved_config one at a  *)
(* time, and the operations of the calls interleave.                        *)

NumCalls == 2

Callers == 1..NumCalls

PersistStages == {"TEST", "PROD"}

PersistTexts == {<<"service:", "SP", "x">>, <<"x">>}

RaceInit ==
    /\ pathExists = TRUE /\ nodeModules = TRUE
    /\ cache = NoCache
    /\ gitignore \in GitignoreFiles
    /\ gitignoreAtStart = gitignore
    /\ calls \in [Callers -> [pc : {"makedirs"}, stage : PersistStages,
                              text : PersistTexts, content : {<<>>}]]
    /\ cli = [kind |-> "exception", returncode |-> 1, stdout |-> <<>>, stderr |-> <<>>]
    /\ last = NoCall /\ prev = NoPrev
    /\ ExIdle
    /\ ScanIdle

Goto(c, pc) == calls' = [calls EXCEPT ![c].pc = pc]

RaceIdle == UNCHANGED <<pathExists, nodeModules, cli, last, prev, exVars, scanVars,
                        gitignoreAtStart>>

\* os.makedirs(migration_dir, exist_ok=True)
MakeDirs(c) ==
    /\ calls[c].pc = "makedirs"
    /\ Goto(c, "write")
    /\ UNCHANGED <<cache, gitignore>> /\ RaceIdle

\* with open(resolved_file_path, "w") as f: f.write(yaml_content)
WriteCache(c) ==
    /\ calls[c].pc = "write"
    /\ cache' = [cache EXCEPT ![LowerStage(calls[c].stage)] = File(calls[c].text)]
    /\ Goto(c, "exists")
    /\ UNCHANGED gitignore /\ RaceIdle

\* if os.path.exists(gitignore_path)
CheckGitignore(c) ==
    /\ calls[c].pc = "exists"
    /\ Goto(c, IF gitignore.exists THEN "read" ELSE "create")
    /\ UNCHANGED <<cache, gitignore>> /\ RaceIdle

\* gitignore_content = f.read(), and the test of it
ReadGitignore(c) ==
    /\ calls[c].pc = "read"
    /\ calls' = [calls EXCEPT ![c].content = gitignore.content,
                              ![c].pc = IF NeedsEntry(gitignore.content)
                                        THEN "append" ELSE "done"]
    /\ UNCHANGED <<cache, gitignore>> /\ RaceIdle

\* with open(gitignore_path, "a") as f: f.write(...)
AppendGitignore(c) ==
    /\ calls[c].pc = "append"
    /\ gitignore' = File(AppendTo(gitignore.content))
    /\ Goto(c, "done")
    /\ UNCHANGED cache /\ RaceIdle

\* with open(gitignore_path, "w") as f: f.write(...)
CreateGitignore(c) ==
    /\ calls[c].pc = "create"
    /\ gitignore' = File(CreatedText)
    /\ Goto(c, "done")
    /\ UNCHANGED cache /\ RaceIdle

RaceNext ==
    \E c \in Callers :
        \/ MakeDirs(c)
        \/ WriteCache(c)
        \/ CheckGitignore(c)
        \/ ReadGitignore(c)
        \/ AppendGitignore(c)
        \/ CreateGitignore(c)

SpecRace == RaceInit /\ [][RaceNext]_vars

AllDone == \A c \in Callers : calls[c].pc = "done"

EntryCount == Count(gitignore.content, gitignore_entry)

\* C10, as stated: however the file operations of two calls interleave, the
\* entry ends up in .gitignore exactly once.
C10_EntryOnce == AllDone => gitignore.exists /\ EntryCount = 1

\* C10, amended: however the file operations of the calls interleave, the
\* entry ends up in .gitignore at least once and at most once for each call
\* (twice for two calls), and what the file held at the start stays as its
\* prefix; a file that held the pattern at the start is left as it was.
C10_EntryOncePerCall ==
    AllDone =>
        /\ gitignore.exists
        /\ IsPrefix(gitignoreAtStart.content, gitignore.content)
        /\ IF gitignoreAtStart.exists /\ EntryIn(gitignoreAtStart.content)
           THEN gitignore = gitignoreAtStart
           ELSE EntryCount >= 1 /\ EntryCount <= NumCalls

\* Both calls read the file before either appended: the entry is there twice.
C10_Witness ==
    /\ AllDone
    /\ gitignoreAtStart = File(<<"x">>)
    /\ gitignore = File(<<"x">> \o AppendedText \o AppendedText)

=============================================================================
